---- MODULE Spec2Model ----
(***************************************************************************)
(* Spark: the in-memory backend of app/(tabs)/index.tsx (group directory,  *)
(* per-group message store, 30 s expiry timer) together with the React     *)
(* handlers that call it (loadNearby, create, send, the chat poll).        *)
(*                                                                         *)
(* Time is in milliseconds since the module was loaded (Date.now() minus   *)
(* the load time).  Coordinates are in units of 1e-4 degree, so that the   *)
(* fallback point (14.676, 121.0437) is the integer pair (146760, 1210437).*)
(* Strings the code trims are sequences of one-character strings.          *)
(* The Group fields name and icebreaker and the Message field createdAt    *)
(* are only rendered, never read by any operation, and are left out of the *)
(* records.                                                                *)
(***************************************************************************)
EXTENDS Integers, Sequences, FiniteSets, TLC

(* ------------------------------ bounds -------------------------------- *)
MaxGroups == 2
MaxMsgs == 1
MaxThreadMsgs == 2
MaxHalfDays == 2

(* ------------------------- program constants -------------------------- *)
DayMs == 24 * 60 * 60 * 1000
SweepPeriodMs == 30000
DefaultRadiusKm == 50
KmPerDegree == 111
UnitsPerDegree == 10000

HalfDayMs == DayMs \div 2
MaxNow == MaxHalfDays * HalfDayMs
TickSteps == {HalfDayMs}

GroupIds == {"a", "b"}
MessageIds == {"m"}
NoGroup == [id |-> "none"]
NoLoc == [latitude |-> -1, longitude |-> -1]
Fallback == [latitude |-> 146760, longitude |-> 1210437]
DeviceLocs == {[latitude |-> 146760, longitude |-> 1210437 + 4505]}
NoDevice == {}
Handles == {"", "Anonymous"}
Texts == {<< >>, <<" ">>, <<"h">>, <<" ", "h", " ">>}

(* ------------------------------ helpers ------------------------------- *)
Range(s) == {s[i] : i \in 1..Len(s)}

IsSpace(c) == c = " "

RECURSIVE TrimStart(_)
TrimStart(s) ==
  IF s # << >> /\ IsSpace(Head(s)) THEN TrimStart(Tail(s)) ELSE s

RECURSIVE TrimEnd(_)
TrimEnd(s) ==
  IF s # << >> /\ IsSpace(s[Len(s)]) THEN TrimEnd(SubSeq(s, 1, Len(s) - 1)) ELSE s

Trim(s) == TrimEnd(TrimStart(s))

Put(m, k, v) == [x \in (DOMAIN m) \cup {k} |-> IF x = k THEN v ELSE m[x]]

(* The filter with the radius taken in degrees (the factor 111 forgotten).  *)
WithinRadiusInDegrees(g, lat, lng, radiusKm) ==
  LET dLat == g.lat - lat
      dLng == g.lng - lng
      d2 == dLat * dLat + dLng * dLng
      hi == d2 \div UnitsPerDegree
      lo == d2 % UnitsPerDegree
      r2 == radiusKm * radiusKm * UnitsPerDegree
  IN  radiusKm >= 0 /\ (hi < r2 \/ (hi = r2 /\ lo = 0))

(* sqrt(dLat^2 + dLng^2) * 111 <= radiusKm, on coordinates in 1e-4 degree:  *)
(* d2 * 111^2 <= radiusKm^2 * 10^8, computed in two limbs of base 10^4 to   *)
(* stay inside 32-bit integers.                                             *)
WithinRadius(g, lat, lng, radiusKm) ==
  LET dLat == g.lat - lat
      dLng == g.lng - lng
      d2 == dLat * dLat + dLng * dLng
      k2 == KmPerDegree * KmPerDegree
      hi == (d2 \div UnitsPerDegree) * k2 + ((d2 % UnitsPerDegree) * k2) \div UnitsPerDegree
      lo == ((d2 % UnitsPerDegree) * k2) % UnitsPerDegree
      r2 == radiusKm * radiusKm * UnitsPerDegree
  IN  radiusKm >= 0 /\ (hi < r2 \/ (hi = r2 /\ lo = 0))

(* Array.prototype.sort((a, b) => a.expiresAt - b.expiresAt): stable.       *)
RECURSIVE InsertByExpiry(_, _)
InsertByExpiry(g, s) ==
  IF s = << >> THEN <<g>>
  ELSE IF g.expiresAt < Head(s).expiresAt THEN <<g>> \o s
  ELSE <<Head(s)>> \o InsertByExpiry(g, Tail(s))

RECURSIVE SortByExpiryDesc(_)
SortByExpiryDesc(s) ==
  IF s = << >> THEN << >>
  ELSE LET rest == SortByExpiryDesc(Tail(s))
           before == SelectSeq(rest, LAMBDA g : g.expiresAt >= Head(s).expiresAt)
           after == SelectSeq(rest, LAMBDA g : g.expiresAt < Head(s).expiresAt)
       IN  before \o <<Head(s)>> \o after

RECURSIVE SortByExpiry(_)
SortByExpiry(s) ==
  IF s = << >> THEN << >>
  ELSE InsertByExpiry(s[Len(s)], SortByExpiry(SubSeq(s, 1, Len(s) - 1)))

(* ------------------------- the in-memory backend ---------------------- *)
(* b is [groups |-> Seq(Group), messages |-> [id -> Seq(Message)]].         *)
createGroup(b, group) ==
  [groups |-> Append(b.groups, group),
   messages |-> Put(b.messages, group.id, << >>)]

listGroupsNearby(b, lat, lng, radiusKm) ==
  SelectSeq(b.groups, LAMBDA g : WithinRadius(g, lat, lng, radiusKm))

(* listGroupsNearby(lat, lng) with radiusKm omitted: radiusKm = 50.         *)
listGroupsNearbyDefault(b, lat, lng) ==
  listGroupsNearby(b, lat, lng, DefaultRadiusKm)

getMessages(b, groupId) ==
  IF groupId \in DOMAIN b.messages THEN b.messages[groupId] ELSE << >>

(* postMessage with unshift instead of push.                                *)
postMessagePrepend(b, groupId, message) ==
  [groups |-> b.groups,
   messages |-> Put(b.messages, groupId, <<message>> \o getMessages(b, groupId))]

postMessage(b, groupId, message) ==
  [groups |-> b.groups,
   messages |-> Put(b.messages, groupId, Append(getMessages(b, groupId), message))]

(* removeExpired deleting only the keys of the groups it has just removed.  *)
removeExpiredOwnKeysOnly(b, t) ==
  LET kept == SelectSeq(b.groups, LAMBDA g : g.expiresAt > t)
      gone == {b.groups[i].id : i \in {n \in 1..Len(b.groups) : b.groups[n].expiresAt <= t}}
      live == {k \in DOMAIN b.messages :
                 k \notin gone \/ \E i \in 1..Len(kept) : kept[i].id = k}
  IN  [groups |-> kept, messages |-> [k \in live |-> b.messages[k]]]

(* removeExpired looking the message keys up in the list before the filter. *)
removeExpiredStaleLookup(b, t) ==
  LET kept == SelectSeq(b.groups, LAMBDA g : g.expiresAt > t)
      live == {k \in DOMAIN b.messages :
                 \E i \in 1..Len(b.groups) : b.groups[i].id = k}
  IN  [groups |-> kept, messages |-> [k \in live |-> b.messages[k]]]

(* removeExpired without the cascade to backend.messages.                   *)
removeExpiredNoCascade(b, t) ==
  [groups |-> SelectSeq(b.groups, LAMBDA g : g.expiresAt > t),
   messages |-> b.messages]

removeExpired(b, t) ==
  LET kept == SelectSeq(b.groups, LAMBDA g : g.expiresAt > t)
      live == {k \in DOMAIN b.messages : \E i \in 1..Len(kept) : kept[i].id = k}
  IN  [groups |-> kept, messages |-> [k \in live |-> b.messages[k]]]

(* --------------------------- view-layer calls ------------------------- *)
(* loadNearby without its opening backend.removeExpired().                  *)
loadNearbyNoSweep(b, loc, t) ==
  [backend |-> b,
   list |-> SortByExpiry(
              listGroupsNearby(b, loc.latitude, loc.longitude, DefaultRadiusKm))]

(* loadNearby with the comparator the other way round (b - a).              *)
loadNearbyDescending(b, loc, t) ==
  LET swept == removeExpired(b, t)
  IN  [backend |-> swept,
       list |-> SortByExpiryDesc(
                  listGroupsNearby(swept, loc.latitude, loc.longitude, DefaultRadiusKm))]

(* SparkApp.loadNearby: sweep, filter by the 50 km radius, sort, store.     *)
loadNearby(b, loc, t) ==
  LET swept == removeExpired(b, t)
  IN  [backend |-> swept,
       list |-> SortByExpiry(
                  listGroupsNearby(swept, loc.latitude, loc.longitude, DefaultRadiusKm))]

(* create with the lifetime in seconds (the factor 1000 forgotten).         *)
NewGroupLifetimeInSeconds(id, t, loc, allowed) ==
  [id |-> id, createdAt |-> t, expiresAt |-> t + 24 * 60 * 60,
   lat |-> loc.latitude, lng |-> loc.longitude, anonymousAllowed |-> allowed]

(* The Group object CreateGroupView.create builds.                          *)
NewGroup(id, t, loc, allowed) ==
  [id |-> id, createdAt |-> t, expiresAt |-> t + DayMs,
   lat |-> loc.latitude, lng |-> loc.longitude, anonymousAllowed |-> allowed]

(* The Message object ChatView.send builds.                                 *)
NewMessage(id, txt, isAnon, handle) ==
  [id |-> id, text |-> Trim(txt),
   displayName |-> IF isAnon THEN "Anonymous"
                   ELSE IF handle # "" THEN handle ELSE "Guest",
   anonymous |-> isAnon]

(* send without the anonymous-allowed check.                                *)
sendNoPolicyCheck(b, group, txt, isAnon, handle, t, id) ==
  IF Trim(txt) = << >>
  THEN [backend |-> b, alert |-> FALSE, sent |-> FALSE]
  ELSE [backend |-> postMessage(b, group.id, NewMessage(id, txt, isAnon, handle)),
        alert |-> FALSE, sent |-> TRUE]

(* send testing the raw text instead of the trimmed text.                   *)
sendNoTrimCheck(b, group, txt, isAnon, handle, t, id) ==
  IF txt = << >>
  THEN [backend |-> b, alert |-> FALSE, sent |-> FALSE]
  ELSE IF isAnon /\ ~group.anonymousAllowed
  THEN [backend |-> b, alert |-> TRUE, sent |-> FALSE]
  ELSE [backend |-> postMessage(b, group.id, NewMessage(id, txt, isAnon, handle)),
        alert |-> FALSE, sent |-> TRUE]

(* ChatView.send: what it does to the backend and whether it alerts.        *)
send(b, group, txt, isAnon, handle, t, id) ==
  IF Trim(txt) = << >>
  THEN [backend |-> b, alert |-> FALSE, sent |-> FALSE]
  ELSE IF isAnon /\ ~group.anonymousAllowed
  THEN [backend |-> b, alert |-> TRUE, sent |-> FALSE]
  ELSE [backend |-> postMessage(b, group.id, NewMessage(id, txt, isAnon, handle)),
        alert |-> FALSE, sent |-> TRUE]

(* ------------------------------- state -------------------------------- *)
(* The text, anonymous switch and handle of the chat form and the          *)
(* anonymous-allowed switch of the create form only hold what the user     *)
(* typed until the handler reads them: they are the handlers' inputs here. *)
VARIABLES
  now,            \* Date.now(), ms since module load
  timerDue,       \* the 30 s interval has elapsed and its callback is pending
  groups,         \* backend.groups
  messages,       \* backend.messages
  view,           \* SparkApp: "discover" | "create" | "chat"; "unmounted" once
                  \* the component is gone
  nearby,         \* SparkApp: groups (the list loadNearby stored)
  myLocation,     \* SparkApp: myLocation, NoLoc for null
  selectedGroup,  \* SparkApp: selectedGroup, NoGroup for null
  lastCall        \* the handler that ran last, its inputs and what it signalled

vars == <<now, timerDue, groups, messages, view, nearby, myLocation,
          selectedGroup, lastCall>>

backend == [groups |-> groups, messages |-> messages]

NoArg == [blank |-> FALSE, anon |-> FALSE]

Call(op, listed, removed, alert, arg) ==
  [op |-> op, listed |-> listed, removed |-> removed, alert |-> alert, arg |-> arg]

Init ==
  /\ now = 0
  /\ timerDue = FALSE
  /\ groups = << >>
  /\ messages = [k \in {} |-> << >>]
  /\ view = "discover"
  /\ nearby = << >>
  /\ myLocation = NoLoc
  /\ selectedGroup = NoGroup
  /\ lastCall = Call("init", FALSE, 0, FALSE, NoArg)

(* The clock advances; crossing a multiple of the period makes the timer due. *)
Tick ==
  \E d \in TickSteps :
    /\ now + d <= MaxNow
    /\ now' = now + d
    /\ timerDue' = (timerDue \/ (now + d) \div SweepPeriodMs > now \div SweepPeriodMs)
    /\ lastCall' = Call("tick", FALSE, 0, FALSE, NoArg)
    /\ UNCHANGED <<groups, messages, view, nearby, myLocation, selectedGroup>>

(* setInterval(() => backend.removeExpired(), 30000) *)
TimerSweep ==
  /\ timerDue
  /\ LET b == removeExpired(backend, now)
     IN  /\ groups' = b.groups
         /\ messages' = b.messages
         /\ lastCall' = Call("timer", FALSE, Len(groups) - Len(b.groups), FALSE, NoArg)
  /\ timerDue' = FALSE
  /\ UNCHANGED <<now, view, nearby, myLocation, selectedGroup>>

(* SparkApp effect: getDeviceLocation (or the fallback), then loadNearby.    *)
Locate(readings) ==
  \E loc \in readings \cup {Fallback} :
    view # "unmounted" /\
    LET r == loadNearby(backend, loc, now)
    IN  /\ myLocation' = loc
        /\ groups' = r.backend.groups
        /\ messages' = r.backend.messages
        /\ nearby' = r.list
        /\ lastCall' = Call("locate", TRUE, Len(groups) - Len(r.backend.groups),
                             FALSE, NoArg)
        /\ UNCHANGED <<now, timerDue, view, selectedGroup>>

(* SparkApp effect: every 2 s, if (myLocation) loadNearby(myLocation).       *)
RefreshNearby ==
  /\ view # "unmounted"
  /\ myLocation # NoLoc
  /\ LET r == loadNearby(backend, myLocation, now)
     IN  /\ groups' = r.backend.groups
         /\ messages' = r.backend.messages
         /\ nearby' = r.list
         /\ lastCall' = Call("refresh", TRUE, Len(groups) - Len(r.backend.groups),
                              FALSE, NoArg)
  /\ UNCHANGED <<now, timerDue, view, myLocation, selectedGroup>>

openCreate ==
  /\ view = "discover"
  /\ view' = "create"
  /\ lastCall' = Call("ui", FALSE, 0, FALSE, NoArg)
  /\ UNCHANGED <<now, timerDue, groups, messages, nearby, myLocation, selectedGroup>>

openDiscover ==
  /\ view = "create"
  /\ view' = "discover"
  /\ selectedGroup' = NoGroup
  /\ lastCall' = Call("ui", FALSE, 0, FALSE, NoArg)
  /\ UNCHANGED <<now, timerDue, groups, messages, nearby, myLocation>>

(* DiscoverView onJoin(item): the item comes from the list on screen.       *)
openChat ==
  /\ view = "discover"
  /\ \E i \in 1..Len(nearby) : selectedGroup' = nearby[i]
  /\ view' = "chat"
  /\ lastCall' = Call("ui", FALSE, 0, FALSE, NoArg)
  /\ UNCHANGED <<now, timerDue, groups, messages, nearby, myLocation>>

(* ChatView onBack: back to discover, selectedGroup is kept.                *)
chatBack ==
  /\ view = "chat"
  /\ view' = "discover"
  /\ lastCall' = Call("ui", FALSE, 0, FALSE, NoArg)
  /\ UNCHANGED <<now, timerDue, groups, messages, nearby, myLocation, selectedGroup>>

(* CreateGroupView.create, then SparkApp's onCreated.                       *)
create(readings, switches, horizon) ==
  /\ view = "create"
  /\ Len(groups) < MaxGroups
  /\ now + DayMs <= horizon
  /\ \E id \in GroupIds, allowed \in switches :
     \E loc \in (IF myLocation # NoLoc THEN {myLocation} ELSE readings \cup {Fallback}) :
       LET group == NewGroup(id, now, loc, allowed)
           made == createGroup(backend, group)
           r == IF myLocation # NoLoc
                THEN loadNearby(made, myLocation, now)
                ELSE [backend |-> made, list |-> nearby]
       IN  /\ groups' = r.backend.groups
           /\ messages' = r.backend.messages
           /\ nearby' = r.list
           /\ selectedGroup' = group
           /\ lastCall' = Call("create", myLocation # NoLoc,
                                Len(made.groups) - Len(r.backend.groups), FALSE, NoArg)
  /\ view' = "chat"
  /\ UNCHANGED <<now, timerDue, myLocation>>

TotalMsgs(m) ==
  LET F[S \in SUBSET DOMAIN m] ==
        IF S = {} THEN 0
        ELSE LET k == CHOOSE x \in S : TRUE
             IN  Len(m[k]) + F[S \ {k}]
  IN  F[DOMAIN m]

(* ChatView.send on the group object the chat view holds.                   *)
chatSend(cap) ==
  /\ view = "chat"
  /\ selectedGroup # NoGroup
  /\ \E id \in MessageIds, txt \in Texts, isAnon \in BOOLEAN, handle \in Handles :
       LET r == send(backend, selectedGroup, txt, isAnon, handle, now, id)
       IN  /\ r.sent => TotalMsgs(messages) < cap
           /\ groups' = r.backend.groups
           /\ messages' = r.backend.messages
           /\ lastCall' = Call("send", FALSE, 0, r.alert, [blank |-> Trim(txt) = << >>, anon |-> isAnon])
  /\ UNCHANGED <<now, timerDue, view, nearby, myLocation, selectedGroup>>

(* The poll with a getMessages that registers the collection it returns.    *)
chatPollRegistering ==
  /\ view = "chat"
  /\ selectedGroup # NoGroup
  /\ messages' = Put(messages, selectedGroup.id, getMessages(backend, selectedGroup.id))
  /\ lastCall' = Call("poll", FALSE, 0, FALSE, NoArg)
  /\ UNCHANGED <<now, timerDue, groups, view, nearby, myLocation, selectedGroup>>

(* ChatView effect: every 800 ms, setMessages([...backend.getMessages(id)]). *)
chatPoll ==
  /\ view = "chat"
  /\ selectedGroup # NoGroup
  /\ lastCall' = Call("poll", FALSE, 0, FALSE, NoArg)
  /\ UNCHANGED <<now, timerDue, groups, messages, view, nearby, myLocation,
                 selectedGroup>>

(* SparkApp is unmounted: React runs the effect cleanups (clearInterval of   *)
(* the 2 s refresh and of the chat poll) and drops the component state; the *)
(* module-level backend and its setInterval are not touched.                *)
unmount ==
  /\ view # "unmounted"
  /\ view' = "unmounted"
  /\ nearby' = << >>
  /\ myLocation' = NoLoc
  /\ selectedGroup' = NoGroup
  /\ lastCall' = Call("unmount", FALSE, 0, FALSE, NoArg)
  /\ UNCHANGED <<now, timerDue, groups, messages>>

(* readings: what getDeviceLocation can return (it may also fail, and the   *)
(* caller then uses Fallback); switches: the positions the form's anonymous *)
(* switch may be in when Create is pressed; cap: how many messages the      *)
(* store may hold; horizon: the latest expiry a group created in the run    *)
(* may have.                                                                *)
Step(readings, switches, cap, horizon) ==
  \/ Tick
  \/ TimerSweep
  \/ Locate(readings)
  \/ RefreshNearby
  \/ openCreate
  \/ openDiscover
  \/ openChat
  \/ chatBack
  \/ create(readings, switches, horizon)
  \/ chatSend(cap)
  \/ chatPoll
  \/ unmount

(* The chat and the sweeps, with the location permission denied and in      *)
(* groups whose creator switched anonymous posting off.                     *)
NoHorizon == MaxNow + DayMs

Next == Step(NoDevice, {FALSE}, MaxMsgs, NoHorizon)

Spec == Init /\ [][Next]_vars

(* The directory with device readings away from the fallback point; the     *)
(* form's switch stays where useState(true) puts it, and every send is one  *)
(* the form rejects.                                                        *)
NextGeo == Step(DeviceLocs, {TRUE}, 0, NoHorizon)

SpecGeo == Init /\ [][NextGeo]_vars

(* Time passes and the 30 s interval keeps firing for as long as the module *)
(* is loaded; nothing obliges the user to act.  Groups are created with the *)
(* switch at its default, and only while their expiry lies within the       *)
(* clock's range.                                                           *)
NextLive == Step(NoDevice, {TRUE}, 1, MaxNow)

LiveSpec == Init /\ [][NextLive]_vars /\ WF_vars(Tick) /\ WF_vars(TimerSweep)

(* A chat session in groups created as the module is loaded, with the       *)
(* switch at its default: threads of more than one message.                 *)
NextThread == Step(NoDevice, {TRUE}, MaxThreadMsgs, DayMs)

SpecThread == Init /\ [][NextThread]_vars

(* ------------------------------- claims ------------------------------- *)
Held == Range(groups) \cup Range(nearby)
          \cup (IF selectedGroup # NoGroup THEN {selectedGroup} ELSE {})

StoredMessages == UNION {Range(messages[k]) : k \in DOMAIN messages}

(* C1: right after a call of loadNearby, the list it stored holds no group  *)
(* with expiresAt <= now, whether or not the timer has swept.               *)
C1_ListNearbyNeverExpired ==
  lastCall.listed => \A i \in 1..Len(nearby) : nearby[i].expiresAt > now

(* loadNearby itself evicted an expired group while the timer was still     *)
(* pending, and listed a live one.                                          *)
C1_Witness ==
  /\ lastCall.listed
  /\ lastCall.removed > 0
  /\ timerDue
  /\ Len(nearby) > 0

(* C2: once the group the chat view holds has expired and been swept out of *)
(* the directory, getMessages on its id is empty and a fresh loadNearby     *)
(* result does not hold it.                                                 *)
C2_SweptGroupStaysGone ==
  (/\ selectedGroup # NoGroup
   /\ selectedGroup.expiresAt <= now
   /\ selectedGroup \notin Range(groups))
  => /\ getMessages(backend, selectedGroup.id) = << >>
     /\ (lastCall.listed => selectedGroup \notin Range(nearby))

(* C3, as claimed: every anonymous send on a group that does not allow it   *)
(* raises the alert and leaves the backend unchanged.                       *)
C3_AnonymousAlwaysSignalled ==
  [][(/\ lastCall'.op = "send"
      /\ lastCall'.arg.anon
      /\ ~selectedGroup.anonymousAllowed)
     => (lastCall'.alert /\ UNCHANGED <<groups, messages>>)]_vars

(* C3, amended: an anonymous send of a text that is non-empty after         *)
(* trimming, on a group that does not allow it, raises the alert and leaves *)
(* the backend unchanged; with a blank text the backend is unchanged too.   *)
C3_AnonymousRejected ==
  [][(/\ lastCall'.op = "send"
      /\ lastCall'.arg.anon
      /\ ~selectedGroup.anonymousAllowed)
     => /\ UNCHANGED <<groups, messages>>
        /\ lastCall'.alert = ~lastCall'.arg.blank]_vars

(* An anonymous send was refused with the alert on a named-only group that  *)
(* already holds a message.                                                 *)
C3_Witness ==
  /\ lastCall.op = "send"
  /\ lastCall.alert
  /\ lastCall.arg.anon
  /\ ~selectedGroup.anonymousAllowed
  /\ Len(getMessages(backend, selectedGroup.id)) > 0

(* C4: a send whose text is empty after trimming changes nothing and raises *)
(* no alert, and every stored message has a non-empty text equal to its     *)
(* trimmed form.                                                            *)
C4_BlankNeverStored ==
  [][/\ \A m \in StoredMessages' : m.text # << >> /\ Trim(m.text) = m.text
     /\ (lastCall'.op = "send" /\ lastCall'.arg.blank)
          => (UNCHANGED <<groups, messages>> /\ ~lastCall'.alert)]_vars

(* A blank send was dropped on a group that holds a message.                *)
C4_Witness ==
  /\ lastCall.op = "send"
  /\ lastCall.arg.blank
  /\ Len(getMessages(backend, selectedGroup.id)) > 0

(* C5: every group, wherever it is held, lives exactly 24 h, and a step     *)
(* leaves every group of the directory as it was or adds one created now.   *)
C5_LifetimeIsOneDay ==
  [][/\ \A g \in Held' : g.expiresAt - g.createdAt = 86400000
                          /\ g.expiresAt > g.createdAt
     /\ \A g \in Range(groups') :
          g \in Range(groups) \/ (lastCall'.op = "create" /\ g.createdAt = now)]_vars

(* Two groups of different age are in the directory, half a day after the  *)
(* younger was created, and a post has just been stored.                    *)
C5_Witness ==
  /\ Len(groups) = 2
  /\ groups[1].createdAt < groups[2].createdAt
  /\ now > groups[2].createdAt
  /\ lastCall.op = "send"
  /\ StoredMessages # {}

(* C6: sweeping twice at the same time gives what sweeping once gives, and  *)
(* right after the timer's sweep another sweep changes nothing.             *)
C6_SweepIdempotent ==
  /\ removeExpired(removeExpired(backend, now), now) = removeExpired(backend, now)
  /\ lastCall.op = "timer" => removeExpired(backend, now) = backend

(* The timer's sweep evicted a group and left a live one with a message.    *)
C6_Witness ==
  /\ lastCall.op = "timer"
  /\ lastCall.removed > 0
  /\ Len(groups) > 0
  /\ StoredMessages # {}

(* C7: with time passing and the timer firing, and no other step required,  *)
(* an expired group of the directory is eventually gone from backend.groups *)
(* and its id from backend.messages.                                        *)
C7_ExpiredEventuallyEvicted ==
  \A id \in GroupIds :
    (\E g \in Range(groups) : g.id = id /\ g.expiresAt <= now)
      ~> (/\ ~\E g \in Range(groups) : g.id = id /\ g.expiresAt <= now
          /\ id \notin DOMAIN messages)

(* The timer, not loadNearby, evicted the last group of the directory and   *)
(* its message collection.                                                  *)
C7_Witness ==
  /\ lastCall.op = "timer"
  /\ lastCall.removed > 0
  /\ groups = << >>
  /\ DOMAIN messages = {}

(* C8: getMessages on the id of an expired group the chat view shows is     *)
(* empty, swept or not.                                                     *)
C8_ExpiredServesNothing ==
  (view = "chat" /\ selectedGroup # NoGroup /\ selectedGroup.expiresAt <= now)
    => getMessages(backend, selectedGroup.id) = << >>

(* C9: create takes an id no group of the directory has, registers an empty *)
(* collection for it, and leaves the messages of every group that stays in  *)
(* the directory as they were.                                              *)
C9_CreateAssignsFreshId ==
  [][lastCall'.op = "create"
     => /\ \A g \in Range(groups) : g.id # selectedGroup'.id
        /\ getMessages(backend', selectedGroup'.id) = << >>
        /\ selectedGroup'.id \in DOMAIN messages'
        /\ \A g \in Range(groups) \cap Range(groups') :
             getMessages(backend', g.id) = getMessages(backend, g.id)]_vars

(* C10: the list loadNearby stores is sorted non-decreasing by expiresAt.   *)
C10_NearbySorted ==
  \A i, j \in 1..Len(nearby) :
    i < j => nearby[i].expiresAt <= nearby[j].expiresAt

(* loadNearby listed two groups that expire at different times.             *)
C10_Witness ==
  /\ lastCall.listed
  /\ Len(nearby) = 2
  /\ nearby[1].expiresAt < nearby[2].expiresAt

(* Integer square root (floor), by Newton's iteration.                      *)
RECURSIVE IsqrtFrom(_, _)
IsqrtFrom(n, x) ==
  LET y == (x + n \div x) \div 2
  IN  IF y >= x THEN x ELSE IsqrtFrom(n, y)

Isqrt(n) == IF n = 0 THEN 0 ELSE IsqrtFrom(n, n)

(* Query origins: the fallback point, the device reading, and two points   *)
(* off the axis, 0.3 and 0.32 degree north and east of the fallback point. *)
Origins ==
  {Fallback} \cup DeviceLocs
    \cup {[latitude |-> Fallback.latitude + d, longitude |-> Fallback.longitude + d] :
            d \in {3000, 3200}}

Radii == {0, 1, 50, 51}

(* C11: for every origin and radius, listGroupsNearby returns the groups of *)
(* the directory in order, keeping every group at the origin's coordinates, *)
(* every group whose distance (rounded up to 1e-4 degree) times 111 is at   *)
(* most the radius, and no group whose distance (rounded down) times 111    *)
(* exceeds it; with the radius omitted it is the call with radius 50.       *)
C11_DistanceFilter ==
  \A o \in Origins :
    /\ listGroupsNearbyDefault(backend, o.latitude, o.longitude)
         = listGroupsNearby(backend, o.latitude, o.longitude, 50)
    /\ \A r \in Radii :
         LET list == listGroupsNearby(backend, o.latitude, o.longitude, r)
         IN  /\ list = SelectSeq(groups, LAMBDA g : g \in Range(list))
             /\ \A g \in Range(groups) :
                  LET dLat == g.lat - o.latitude
                      dLng == g.lng - o.longitude
                      d == Isqrt(dLat * dLat + dLng * dLng)
                  IN  /\ (dLat = 0 /\ dLng = 0) => g \in Range(list)
                      /\ (d + 1) * 111 <= r * UnitsPerDegree => g \in Range(list)
                      /\ d * 111 > r * UnitsPerDegree => g \notin Range(list)

(* loadNearby listed the group at the query origin and left out a live     *)
(* group 0.4505 degree (50.0055 km) away.                                   *)
C11_Witness ==
  /\ lastCall.listed
  /\ lastCall.removed = 0
  /\ Len(groups) = 2
  /\ Len(nearby) = 1
  /\ nearby[1].lat = myLocation.latitude /\ nearby[1].lng = myLocation.longitude
  /\ \E i \in 1..2 : groups[i].expiresAt > now /\ groups[i].lng # myLocation.longitude

(* C12: getMessages on an id without a message collection is the empty     *)
(* sequence, and the chat poll, which calls it, leaves backend.groups and   *)
(* backend.messages as they were.                                           *)
C12_UnknownIdReadsEmpty ==
  [][/\ \A id \in (GroupIds \cup {NoGroup.id}) \ DOMAIN messages' :
          getMessages(backend', id) = << >>
     /\ lastCall'.op = "poll" => UNCHANGED <<groups, messages>>]_vars

(* The chat view polled a group whose collection the sweep had deleted.     *)
C12_Witness ==
  /\ lastCall.op = "poll"
  /\ view = "chat"
  /\ selectedGroup.id \notin DOMAIN messages
  /\ selectedGroup.expiresAt <= now

(* C13: every key of backend.messages is the id of a group that is in       *)
(* backend.groups.                                                          *)
C13_NoDanglingCollection ==
  \A k \in DOMAIN messages : \E g \in Range(groups) : g.id = k

(* C14: whenever send stores a message for a group id, a group with that id *)
(* is in the directory and has not expired.                                 *)
C14_PostOnlyToLiveGroup ==
  [][(lastCall'.op = "send" /\ messages' # messages)
     => \E g \in Range(groups) : g.id = selectedGroup.id /\ now < g.expiresAt]_vars

IsPrefix(s, t) == Len(s) <= Len(t) /\ SubSeq(t, 1, Len(s)) = s

(* The step just taken ran backend.removeExpired.                           *)
Swept(call) ==
  call.op \in {"timer", "locate", "refresh"} \/ (call.op = "create" /\ call.listed)

(* C15: every group of the directory has a message collection, and a sweep  *)
(* (the timer's or loadNearby's) that removes a group leaves no collection  *)
(* under that group's id.                                                   *)
C15_NoPartialEviction ==
  [][/\ \A g \in Range(groups') : g.id \in DOMAIN messages'
     /\ lastCall'.op \in {"timer", "locate", "refresh"}
          => \A g \in Range(groups) \ Range(groups') : g.id \notin DOMAIN messages']_vars

(* C16: a group leaves the directory only in a sweep and only if it has     *)
(* expired, a sweep leaves no expired group behind, and every step keeps    *)
(* each live group and, in order, the messages stored under its id.         *)
C16_DestroyedOnlyByExpiry ==
  [][/\ \A g \in Range(groups) \ Range(groups') :
          Swept(lastCall') /\ g.expiresAt <= now
     /\ Swept(lastCall') => \A g \in Range(groups') : g.expiresAt > now
     /\ \A g \in Range(groups) :
          g.expiresAt > now
            => /\ g \in Range(groups')
               /\ IsPrefix(getMessages(backend, g.id), getMessages(backend', g.id))]_vars

(* C17: a send that passes the blank and policy checks leaves backend.groups *)
(* and every other collection as they were and makes the group's sequence   *)
(* its previous sequence followed by exactly one message.                   *)
C17_PostAppendsOne ==
  [][(lastCall'.op = "send" /\ ~lastCall'.arg.blank /\ ~lastCall'.alert)
     => LET id == selectedGroup.id
            old == getMessages(backend, id)
            new == getMessages(backend', id)
        IN  /\ groups' = groups
            /\ DOMAIN messages' = DOMAIN messages \cup {id}
            /\ \A k \in DOMAIN messages \ {id} : messages'[k] = messages[k]
            /\ Len(new) = Len(old) + 1
            /\ IsPrefix(old, new)]_vars

(* A second, different message was appended to a group's sequence while     *)
(* another group is in the directory.                                       *)
C17_Witness ==
  /\ lastCall.op = "send"
  /\ Len(groups) = 2
  /\ groups[1].id # groups[2].id
  /\ Len(getMessages(backend, selectedGroup.id)) = 2
  /\ getMessages(backend, selectedGroup.id)[1] # getMessages(backend, selectedGroup.id)[2]

(* C18: a stored message is anonymous exactly if its displayName is         *)
(* "Anonymous", and the message send builds has displayName "Anonymous" if  *)
(* anonymous, else the handle if non-empty, else "Guest".                   *)
C18_AnonymousIffLabel ==
  /\ \A m \in StoredMessages : m.anonymous <=> m.displayName = "Anonymous"
  /\ \A h \in Handles, a \in BOOLEAN :
       NewMessage("m", <<"h">>, a, h).displayName
         = IF a THEN "Anonymous" ELSE IF h # "" THEN h ELSE "Guest"

(* C19: once SparkApp is unmounted the timer does not run removeExpired.    *)
C19_TimerStopsWithApp ==
  [][view = "unmounted" => lastCall'.op # "timer"]_vars

(* C20: removeExpired applied to any reachable backend, and the backend     *)
(* right after a handler that ran it, have the ids of backend.groups as the *)
(* keys of backend.messages.                                                *)
C20_SweepRestoresLockstep ==
  /\ LET b == removeExpired(backend, now)
     IN  DOMAIN b.messages = {g.id : g \in Range(b.groups)}
  /\ Swept(lastCall) => DOMAIN messages = {g.id : g \in Range(groups)}

(* The timer fired once more after the chat view's group had been swept    *)
(* by loadNearby, and left both stores empty.                               *)
C20_Witness ==
  /\ lastCall.op = "timer"
  /\ lastCall.removed = 0
  /\ view = "chat"
  /\ selectedGroup.expiresAt <= now
  /\ myLocation # NoLoc
  /\ groups = << >>
  /\ DOMAIN messages = {}

====
